---- MODULE Spec2Model ----
(***************************************************************************)
(* A model of the oak logger (src/src/oak.cpp and its header,              *)
(* src/unnamed/part_008): the shared logger state, the producer API, the   *)
(* configuration calls, and the writer thread with its start/stop          *)
(* lifecycle.  Application threads and the writer interleave at the        *)
(* granularity of critical sections of logger::log_mutex; accesses made    *)
(* outside the mutex (close_writer, notify_one, the unlocked reads of      *)
(* log_socket) are steps of their own.                                     *)
(***************************************************************************)
EXTENDS Integers, Sequences, FiniteSets, TLC

\* ------------------------------------------------------------------ bounds

\* add_to_queue calls started in a run of Spec.
MaxCalls == 3

\* add_to_queue calls started in a run of FairSpec.
MaxFairCalls == 2

\* log and configuration calls started in a run of LogSpec.
MaxLogCalls == 3

\* descriptors the process may hold open beyond stdin, stdout and stderr.
MaxSockets == 2

\* add_to_queue and configuration calls started in a run of SinkSpec.
MaxSinkCalls == 3

\* add_to_queue calls started in a run of LifeSpec.
MaxLifeCalls == 2

\* set_flags and add_flags calls started in a run of FlagSpec.
MaxFlagCalls == 2

\* settings_file calls started in a run of SettingsSpec.
MaxSettingsCalls == 2

\* log_to_stdout, log_to_file, log_to_socket and configuration calls started
\* in a run of ProducerSpec.
MaxProducerCalls == 2

\* add_to_queue, set_file and close_file calls started in a run of FileSpec.
MaxFileCalls == 3

\* add_to_queue, set_file, set_level and flush calls started in a run of
\* FlushSpec.
MaxFlushCalls == 3

\* calls started in a run of MutexSpec.
MaxMutexCalls == 2

\* lines of a settings file.
MaxLines == 2

\* add_to_queue and configuration calls started in a run of ReuseSpec.
MaxReuseCalls == 4

\* ------------------------------------------------------------ program values

\* enum class level (part_008:69-78)
debug == 0
info == 1
warn == 2
error == 3
output == 4
disabled == 5
Levels == debug..disabled

\* enum class flags (part_008:87-96)
flag_none == 0
flag_level == 1
flag_date == 2
flag_time == 4
flag_pid == 8
flag_tid == 16
flag_json == 32

\* the flags given to set_flags and add_flags, and the argument lists: one
\* flag or two
SomeFlags == {flag_none, flag_level, flag_date, flag_json}
FlagArgs == {<<f>> : f \in SomeFlags} \cup {<<f, g>> : f, g \in SomeFlags}

\* enum class destination (part_008:98-104)
Destinations == {"std_out", "file", "socket"}

\* enum class protocol_t (part_008:80-85), and a value outside the enum
Protocols == {"tcp", "udp", "invalid"}

\* the value of log_socket when no socket was ever set (oak.cpp:40)
NoSocket == -1

\* the lowest descriptor socket() can return: 0, 1 and 2 are the standard
\* streams
FirstFd == 3
Fds == FirstFd..(FirstFd + MaxSockets - 1)

\* the files that exist, and the paths given to set_file: a file that
\* exists, and a path that does not
Files == {"F", "G"}
Paths == {"F", "nope"}

Threads == {"main", "p1"}
Payloads == {"a", "b"}
Formats == {"a"}

VARIABLES
    log_level,      \* logger::log_level
    flag_bits,      \* logger::flag_bits
    log_file,       \* logger::log_file: "closed" or the name of the open file
    log_socket,     \* logger::log_socket
    log_queue,      \* logger::log_queue
    log_mutex,      \* logger::log_mutex: "free" or its owner
    close_writer,   \* logger::close_writer
    writer_thread,  \* logger::writer_thread: "nullopt", "running", "joined"
    wpc,            \* position of the writer thread in writer()
    welem,          \* writer(): the local elem
    pc,             \* position of each application thread
    loc,            \* locals of the call each application thread is in
    sock_open,      \* kernel: descriptors that are open sockets
    sock_conn,      \* kernel: descriptors that are connected
    sock_type,      \* kernel: the socket type of each descriptor
    file_fds,       \* kernel: the descriptors of the files log_file holds open
    live,           \* history: writer threads started and not yet exited
    last,           \* history: the configuration call made last
    enqueued,       \* history: every record pushed, in push order
    dispatched,     \* history: every record handed to a sink, in order
    ncalls,         \* history: number of calls the run may still start
    stopAt,         \* history: Len(enqueued) when stop_writer() was called
    joinAt,         \* history: Len(enqueued) at stop_writer()'s first return
    initAt          \* history: Len(enqueued) at the first init_writer() call

vars == <<log_level, flag_bits, log_file, log_socket, log_queue, log_mutex,
          close_writer, writer_thread, wpc, welem, pc, loc, sock_open,
          sock_conn, sock_type, file_fds, live, last, enqueued, dispatched,
          ncalls, stopAt, joinAt, initAt>>

config == <<log_level, flag_bits, log_file, log_socket, sock_open, sock_conn,
           sock_type, file_fds, last>>
writerv == <<wpc, welem, dispatched, live>>

\* A message is the sequence of the pieces it was put together from.
NoElem == [uid |-> 0, message |-> <<>>, dest |-> "std_out"]

\* The locals of a call: message, dest (add_to_queue's arguments), lvl (the
\* level argument), ret (where add_to_queue returns to), proto (set_socket's
\* protocol argument), flags (the flag arguments, or the flag names of a
\* settings line, not yet added), lines (the lines of the settings file not
\* yet read), res (the value the call returns); and, as history of the
\* call, op (the function called), given (all its flag arguments), was,
\* waslvl and wasfile (flag_bits, log_level and log_file when it was called),
\* content (all the lines of the settings file), thr (the threshold
\* get_level() returned), pushed (the records it pushed), atpush (log_file
\* at its latest push) and dirty (another thread changed the configuration
\* during the call).
NoLoc == [message |-> <<>>, dest |-> "std_out", lvl |-> debug, ret |-> "idle",
          proto |-> "", flags |-> <<>>, lines |-> <<>>, res |-> "none",
          op |-> "", given |-> <<>>, was |-> 0, waslvl |-> debug,
          wasfile |-> "closed", content |-> <<>>,
          thr |-> debug, pushed |-> <<>>, atpush |-> "closed",
          dirty |-> FALSE]

\* No configuration call was made yet.  op and arg are the call and its
\* argument (lvl when it is a level), res its return value ("ok", "err", or
\* "none" while it runs), before the file that was open when it was made.
NoLast == [op |-> "none", arg |-> "", lvl |-> debug, res |-> "none",
           before |-> "closed"]

\* a threshold of debug at start-up
DefaultLevelDebug == debug

\* oak.cpp:32: the initial value of logger::log_level
DefaultLevel == warn

\* oak.cpp:31: the initial value of logger::flag_bits
DefaultFlags == flag_level

\* ------------------------------------------------------------------ helpers

\* a push at the head in place of the tail
PushFront(q, e) == <<e>> \o q

\* std::deque::push_back (oak.cpp:86)
PushBack(q, e) == Append(q, e)

\* std::deque::front (oak.cpp:103)
Front(q) == Head(q)

\* a pop_front that is left out
PopNothing(q) == q

\* std::deque::pop_front (oak.cpp:104)
PopFront(q) == Tail(q)

\* std::condition_variable::notify_one (oak.cpp:88, 134): wakes the writer
\* when it is blocked in wait, and is lost otherwise.
NotifyOne(w) == IF w = "waiting" THEN "woken" ELSE w

\* a writer that leaves its loop when it finds the queue empty
ExitWhenEmpty == log_queue = <<>>

\* the test of the writer's while loop (oak.cpp:93): the loop is left when
\* close_writer.load() is true
LoopExit == close_writer

\* a wait that returns whatever the queue and close_writer are
NoWaitPred == TRUE

\* a wait that returns on the shutdown request only
ShutdownOnly == close_writer

\* the predicate of log_cv.wait (oak.cpp:97-100)
WaitPred == log_queue # <<>> \/ close_writer

\* the writer's std::unique_lock on log_mutex can be taken (oak.cpp:95)
MutexFree == log_mutex = "free"

\* a section entered without taking the mutex
NoLockGuard(t) == TRUE

\* an application thread's std::lock_guard on log_mutex can be taken
\* (oak.cpp:85 and every accessor of part_008:131-193)
LockGuard(t) == log_mutex = "free"

\* a return that leaves log_mutex locked by the thread
NotReleased(t) == t

\* the destructor of a std::lock_guard at the return of set_socket
\* (oak.cpp:257, 291) and of flush (oak.cpp:336): log_mutex is unlocked
Released(t) == "free"

\* ------------------------------------------------------------------ Init

\* The state after static initialisation (oak.cpp:31-41); n is the number of
\* calls the run may start.
Start(n) ==
    /\ log_level = DefaultLevel
    /\ flag_bits = DefaultFlags
    /\ log_file = "closed"
    /\ log_socket = NoSocket
    /\ log_queue = <<>>
    /\ log_mutex = "free"
    /\ close_writer = FALSE
    /\ writer_thread = "nullopt"
    /\ wpc = "none"
    /\ welem = NoElem
    /\ pc = [t \in Threads |-> "idle"]
    /\ loc = [t \in Threads |-> NoLoc]
    /\ sock_open = {}
    /\ sock_conn = {}
    /\ sock_type = [fd \in Fds |-> "none"]
    /\ file_fds = {}
    /\ live = 0
    /\ last = NoLast
    /\ enqueued = <<>>
    /\ dispatched = <<>>
    /\ ncalls = n
    /\ stopAt = -1
    /\ joinAt = -1
    /\ initAt = -1

Init == Start(MaxCalls)

\* ------------------------------------------------------------ add_to_queue

\* A thread calls add_to_queue(str, d) directly (log_to_stdout(str) is
\* exactly this call with d = std_out).
CallAddToQueue(t) ==
    /\ pc[t] = "idle"
    /\ ncalls > 0
    /\ \E m \in Payloads, d \in Destinations :
         loc' = [loc EXCEPT ![t] = [NoLoc EXCEPT !.message = <<m>>, !.dest = d]]
    /\ pc' = [pc EXCEPT ![t] = "aq_push"]
    /\ ncalls' = ncalls - 1
    /\ UNCHANGED <<config, log_queue, log_mutex, close_writer, writer_thread,
                   writerv, enqueued, stopAt, joinAt, initAt>>

\* oak.cpp:84-87: the push, inside its own lock_guard scope
AddToQueuePush(t) ==
    /\ pc[t] = "aq_push"
    /\ LockGuard(t)
    /\ LET e == [uid |-> Len(enqueued) + 1, message |-> loc[t].message,
                 dest |-> loc[t].dest]
       IN /\ log_queue' = PushBack(log_queue, e)
          /\ enqueued' = Append(enqueued, e)
          /\ loc' = [loc EXCEPT ![t].pushed = Append(@, e),
                                ![t].atpush = log_file]
    /\ pc' = [pc EXCEPT ![t] = "aq_notify"]
    /\ UNCHANGED <<config, log_mutex, close_writer, writer_thread, writerv,
                   ncalls, stopAt, joinAt, initAt>>

\* oak.cpp:88: notify_one after the lock is released, then return
AddToQueueNotify(t) ==
    /\ pc[t] = "aq_notify"
    /\ wpc' = NotifyOne(wpc)
    /\ pc' = [pc EXCEPT ![t] = loc[t].ret]
    /\ loc' = [loc EXCEPT ![t] = IF loc[t].ret = "idle" THEN NoLoc ELSE @]
    /\ UNCHANGED <<config, log_queue, log_mutex, close_writer, writer_thread,
                   welem, live, dispatched, enqueued, ncalls, stopAt,
                   joinAt, initAt>>

\* ------------------------------------------------------------------ writer

\* oak.cpp:93: the loop test on close_writer
WriterLoop ==
    /\ wpc = "loop"
    /\ wpc' = IF LoopExit THEN "done" ELSE "lock"
    /\ live' = IF LoopExit THEN live - 1 ELSE live
    /\ UNCHANGED <<config, log_queue, log_mutex, close_writer, writer_thread,
                   welem, pc, loc, enqueued, dispatched, ncalls,
                   stopAt, joinAt, initAt>>

\* oak.cpp:95-100: take the unique_lock and test the wait predicate; the
\* same test is made after a wake-up, with the mutex re-acquired by wait.
WriterLock ==
    /\ wpc \in {"lock", "woken"}
    /\ MutexFree
    /\ log_mutex' = "writer"
    /\ wpc' = IF WaitPred THEN "drain" ELSE "sleep"
    /\ UNCHANGED <<config, log_queue, close_writer, writer_thread, welem, live,
                   pc, loc, enqueued, dispatched, ncalls, stopAt,
                   joinAt, initAt>>

\* oak.cpp:96: the predicate was false: wait releases the mutex and blocks
WriterSleep ==
    /\ wpc = "sleep"
    /\ log_mutex' = "free"
    /\ wpc' = "waiting"
    /\ UNCHANGED <<config, log_queue, close_writer, writer_thread, welem, live,
                   pc, loc, enqueued, dispatched, ncalls, stopAt,
                   joinAt, initAt>>

\* std::condition_variable::wait may return without a notification
SpuriousWake ==
    /\ wpc = "waiting"
    /\ wpc' = "woken"
    /\ UNCHANGED <<config, log_queue, log_mutex, close_writer, writer_thread,
                   welem, live, pc, loc, enqueued, dispatched,
                   ncalls, stopAt, joinAt, initAt>>

\* The sink a record reaches when the writer writes it (oak.cpp:105-121):
\* write(log_socket, ...) goes to whatever the descriptor numbered log_socket
\* is at that time, a connected socket, the file log_file holds, or nothing.
SinkOf(e) ==
    CASE e.dest = "std_out" -> "stdout"
      [] e.dest = "file" -> IF log_file = "closed" THEN "dropped" ELSE log_file
      [] e.dest = "socket" ->
           IF log_socket \in sock_conn THEN "fd"
           ELSE IF log_socket \in file_fds THEN log_file
           ELSE "dropped"

\* oak.cpp:101-121: the drain loop test; with a record in the queue it is
\* popped and the write to its sink is entered, the mutex still held.
\* With the queue empty the lock goes out of scope (oak.cpp:122).
WriterDrain ==
    /\ wpc = "drain"
    /\ IF log_queue # <<>>
       THEN /\ welem' = Front(log_queue)
            /\ log_queue' = PopFront(log_queue)
            /\ dispatched' = Append(dispatched,
                 [uid |-> Front(log_queue).uid,
                  message |-> Front(log_queue).message,
                  dest |-> Front(log_queue).dest,
                  sink |-> SinkOf(Front(log_queue)),
                  file |-> log_file,
                  sock |-> log_socket])
            /\ wpc' = "io"
            /\ UNCHANGED log_mutex
       ELSE /\ log_mutex' = "free"
            /\ wpc' = "loop"
            /\ UNCHANGED <<welem, log_queue, dispatched>>
    /\ UNCHANGED <<config, close_writer, writer_thread, live, pc, loc,
                   enqueued, ncalls, stopAt, joinAt, initAt>>

\* a writer that returns when a write did not reach its sink
StopOnDrop(sink) == IF sink = "dropped" THEN "done" ELSE "drain"

\* oak.cpp:105-122: whatever the write did, its result is not looked at and
\* the break leads back to the test of the drain loop
AfterIo(sink) == "drain"

\* oak.cpp:105-121: the write to the sink returns; elem is destroyed
WriterIo ==
    /\ wpc = "io"
    /\ welem' = NoElem
    /\ wpc' = AfterIo(dispatched[Len(dispatched)].sink)
    /\ UNCHANGED <<config, log_queue, log_mutex, close_writer, writer_thread,
                   live, pc, loc, enqueued, dispatched, ncalls,
                   stopAt, joinAt, initAt>>

WriterStep ==
    \/ WriterLoop
    \/ WriterLock
    \/ WriterSleep
    \/ WriterDrain
    \/ WriterIo

\* ------------------------------------------------------------ log_to_string

\* std::formatter<oak::level>::format (part_008:399-425)
LevelName(l) ==
    CASE l = error -> "error"
      [] l = warn -> "warn"
      [] l = info -> "info"
      [] l = debug -> "debug"
      [] l = output -> "output"
      [] OTHER -> "unknown"

HasFlag(f, bit) == (f \div bit) % 2 = 1

\* a | b on unsigned long (part_008:168)
RECURSIVE BitOr(_, _)
BitOr(a, b) ==
    IF a = 0 THEN b
    ELSE IF b = 0 THEN a
    ELSE (IF a % 2 = 1 \/ b % 2 = 1 THEN 1 ELSE 0)
         + 2 * BitOr(a \div 2, b \div 2)

\* log_to_string (part_008:202-287) for the flags level and json, with the
\* flags f that get_flags() returned: the prefix, the formatted text and the
\* closing of the line.  f - json is computed in unsigned long, so it is 0
\* only when f = json.
LogToString(f, l, fmt) ==
    LET json == HasFlag(f, flag_json)
        open == IF json THEN <<"{ ">> ELSE IF f > 0 THEN <<"[ ">> ELSE <<>>
        lev  == IF HasFlag(f, flag_level)
                THEN IF json THEN <<"\"level\": \"", LevelName(l), "\"">>
                             ELSE <<"level=", LevelName(l), " ">>
                ELSE <<>>
        shut == IF f # flag_json THEN IF json THEN <<", ">> ELSE <<"] ">>
                ELSE <<>>
    IN IF json
       THEN open \o lev \o shut \o <<"\"message\": \"", fmt, "\" }\n">>
       ELSE open \o lev \o shut \o <<fmt, "\n">>

\* ---------------------------------------------------------------------- log

\* an early return that also drops the call at the threshold itself
AtOrBelowThreshold(thr, lvl) == thr >= lvl

\* the early return of log (part_008:330): the threshold thr is above lvl
BelowThreshold(thr, lvl) == thr > lvl

\* the socket-open test of log and log_to_socket (part_008:337, oak.cpp:247)
SocketSet(s) == s > 0

\* A configuration call changes the configuration under the calls running.
Dirty == [t \in Threads |-> IF pc[t] = "idle" THEN loc[t]
                            ELSE [loc[t] EXCEPT !.dirty = TRUE]]

\* A thread calls log(lvl, fmt).
CallLog(t) ==
    /\ pc[t] = "idle"
    /\ ncalls > 0
    /\ \E l \in Levels, m \in Formats :
         loc' = [loc EXCEPT ![t] = [NoLoc EXCEPT !.lvl = l, !.message = <<m>>]]
    /\ pc' = [pc EXCEPT ![t] = "log_level"]
    /\ ncalls' = ncalls - 1
    /\ UNCHANGED <<config, log_queue, log_mutex, close_writer, writer_thread,
                   writerv, enqueued, stopAt, joinAt, initAt>>

\* part_008:330-331: get_level() under its lock_guard, and the early return
LogLevel(t) ==
    /\ pc[t] = "log_level"
    /\ LockGuard(t)
    /\ loc' = [loc EXCEPT ![t].thr = log_level]
    /\ pc' = [pc EXCEPT ![t] = IF BelowThreshold(log_level, loc[t].lvl)
                               THEN "log_ret" ELSE "log_format"]
    /\ UNCHANGED <<config, log_queue, log_mutex, close_writer, writer_thread,
                   writerv, enqueued, ncalls, stopAt, joinAt, initAt>>

\* part_008:332-333: log_to_string (get_flags() under its lock_guard), then
\* log_to_stdout(str), which is add_to_queue(str, std_out) (part_008:298-301)
LogFormat(t) ==
    /\ pc[t] = "log_format"
    /\ LockGuard(t)
    /\ loc' = [loc EXCEPT
                 ![t].message = LogToString(flag_bits, loc[t].lvl, @[1]),
                 ![t].dest = "std_out",
                 ![t].ret = "log_isfile"]
    /\ pc' = [pc EXCEPT ![t] = "aq_push"]
    /\ UNCHANGED <<config, log_queue, log_mutex, close_writer, writer_thread,
                   writerv, enqueued, ncalls, stopAt, joinAt, initAt>>

\* part_008:334: is_file_open() under its lock_guard
LogIsFileOpen(t) ==
    /\ pc[t] = "log_isfile"
    /\ LockGuard(t)
    /\ pc' = [pc EXCEPT ![t] = IF log_file # "closed" THEN "ltf_isfile"
                               ELSE "log_sock"]
    /\ UNCHANGED <<config, log_queue, log_mutex, close_writer, writer_thread,
                   writerv, loc, enqueued, ncalls, stopAt, joinAt, initAt>>

\* oak.cpp:238-242: log_to_file(str) tests is_file_open() again
LogToFileStr(t) ==
    /\ pc[t] = "ltf_isfile"
    /\ LockGuard(t)
    /\ IF log_file # "closed"
       THEN /\ loc' = [loc EXCEPT ![t].dest = "file", ![t].ret = "log_sock"]
            /\ pc' = [pc EXCEPT ![t] = "aq_push"]
       ELSE /\ pc' = [pc EXCEPT ![t] = "log_sock"]
            /\ UNCHANGED loc
    /\ UNCHANGED <<config, log_queue, log_mutex, close_writer, writer_thread,
                   writerv, enqueued, ncalls, stopAt, joinAt, initAt>>

\* part_008:337: log reads log_socket, without the mutex
LogSocketTest(t) ==
    /\ pc[t] = "log_sock"
    /\ pc' = [pc EXCEPT ![t] = IF SocketSet(log_socket) THEN "lts_sock"
                               ELSE "log_ret"]
    /\ UNCHANGED <<config, log_queue, log_mutex, close_writer, writer_thread,
                   writerv, loc, enqueued, ncalls, stopAt, joinAt, initAt>>

\* oak.cpp:245-249: log_to_socket(str) reads log_socket again, without the
\* mutex
LogToSocketStr(t) ==
    /\ pc[t] = "lts_sock"
    /\ IF SocketSet(log_socket)
       THEN /\ loc' = [loc EXCEPT ![t].dest = "socket", ![t].ret = "log_ret"]
            /\ pc' = [pc EXCEPT ![t] = "aq_push"]
       ELSE /\ pc' = [pc EXCEPT ![t] = "log_ret"]
            /\ UNCHANGED loc
    /\ UNCHANGED <<config, log_queue, log_mutex, close_writer, writer_thread,
                   writerv, enqueued, ncalls, stopAt, joinAt, initAt>>

\* part_008:340: log returns
LogReturn(t) ==
    /\ pc[t] = "log_ret"
    /\ pc' = [pc EXCEPT ![t] = "idle"]
    /\ loc' = [loc EXCEPT ![t] = NoLoc]
    /\ UNCHANGED <<config, log_queue, log_mutex, close_writer, writer_thread,
                   writerv, enqueued, ncalls, stopAt, joinAt, initAt>>

\* ------------------------------------------------ the single-sink producers

\* A thread calls log_to_stdout(lvl, fmt), log_to_file(lvl, fmt) or
\* log_to_socket(lvl, fmt): dest is the sink of the function called.
CallLogTo(t) ==
    /\ pc[t] = "idle"
    /\ ncalls > 0
    /\ \E d \in Destinations, l \in Levels, m \in Formats :
         loc' = [loc EXCEPT ![t] = [NoLoc EXCEPT !.op = "log_to", !.dest = d,
                                     !.lvl = l, !.message = <<m>>]]
    /\ pc' = [pc EXCEPT ![t] = "lt_level"]
    /\ ncalls' = ncalls - 1
    /\ UNCHANGED <<config, log_queue, log_mutex, close_writer, writer_thread,
                   writerv, enqueued, stopAt, joinAt, initAt>>

\* part_008:292, 306, 318: get_level() under its lock_guard and the test
\* get_level() > lvl.  log_to_stdout returns when it holds; log_to_file
\* goes on to the right operand of its && when it holds and skips it
\* otherwise; log_to_socket returns when it holds and goes on to the right
\* operand of its || otherwise.
LogToLevel(t) ==
    /\ pc[t] = "lt_level"
    /\ LockGuard(t)
    /\ loc' = [loc EXCEPT ![t].thr = log_level]
    /\ pc' = [pc EXCEPT ![t] =
               CASE loc[t].dest = "std_out" ->
                      IF BelowThreshold(log_level, loc[t].lvl)
                      THEN "lt_ret" ELSE "lt_format"
                 [] loc[t].dest = "file" ->
                      IF BelowThreshold(log_level, loc[t].lvl)
                      THEN "lt_isfile" ELSE "lt_format"
                 [] loc[t].dest = "socket" ->
                      IF BelowThreshold(log_level, loc[t].lvl)
                      THEN "lt_ret" ELSE "lt_sock"]
    /\ UNCHANGED <<config, log_queue, log_mutex, close_writer, writer_thread,
                   writerv, enqueued, ncalls, stopAt, joinAt, initAt>>

\* part_008:306-307: !is_file_open(), under its lock_guard: log_to_file
\* returns when no file is open
LogToIsFile(t) ==
    /\ pc[t] = "lt_isfile"
    /\ LockGuard(t)
    /\ pc' = [pc EXCEPT ![t] = IF log_file = "closed" THEN "lt_ret"
                               ELSE "lt_format"]
    /\ UNCHANGED <<config, log_queue, log_mutex, close_writer, writer_thread,
                   writerv, loc, enqueued, ncalls, stopAt, joinAt, initAt>>

\* part_008:318-319: logger::log_socket < 0, read without the mutex:
\* log_to_socket returns when it holds
LogToSocketTest(t) ==
    /\ pc[t] = "lt_sock"
    /\ pc' = [pc EXCEPT ![t] = IF log_socket < 0 THEN "lt_ret"
                               ELSE "lt_format"]
    /\ UNCHANGED <<config, log_queue, log_mutex, close_writer, writer_thread,
                   writerv, loc, enqueued, ncalls, stopAt, joinAt, initAt>>

\* part_008:294-295, 308-309, 320-321: log_to_string (get_flags() under its
\* lock_guard), then add_to_queue for the sink of the function
LogToFormat(t) ==
    /\ pc[t] = "lt_format"
    /\ LockGuard(t)
    /\ loc' = [loc EXCEPT
                 ![t].message = LogToString(flag_bits, loc[t].lvl, @[1]),
                 ![t].ret = "lt_ret"]
    /\ pc' = [pc EXCEPT ![t] = "aq_push"]
    /\ UNCHANGED <<config, log_queue, log_mutex, close_writer, writer_thread,
                   writerv, enqueued, ncalls, stopAt, joinAt, initAt>>

\* part_008:296, 310, 322: the function returns
LogToReturn(t) ==
    /\ pc[t] = "lt_ret"
    /\ pc' = [pc EXCEPT ![t] = "idle"]
    /\ loc' = [loc EXCEPT ![t] = NoLoc]
    /\ UNCHANGED <<config, log_queue, log_mutex, close_writer, writer_thread,
                   writerv, enqueued, ncalls, stopAt, joinAt, initAt>>

LogToStep(t) ==
    \/ LogToLevel(t)
    \/ LogToIsFile(t)
    \/ LogToSocketTest(t)
    \/ LogToFormat(t)
    \/ LogToReturn(t)

\* ------------------------------------------------------------ configuration

\* a set_level that leaves the threshold as it is
LevelKept(cur, lvl) == cur

\* part_008:152: logger::log_level = lvl
LevelAfterSet(cur, lvl) == lvl

\* part_008:149-153: set_level(lvl), one critical section
SetLevel(t) ==
    /\ pc[t] = "idle"
    /\ ncalls > 0
    /\ LockGuard(t)
    /\ \E l \in Levels :
         /\ log_level' = LevelAfterSet(log_level, l)
         /\ last' = [NoLast EXCEPT !.op = "set_level", !.lvl = l,
                                   !.res = "ok", !.before = log_file]
    /\ loc' = Dirty
    /\ ncalls' = ncalls - 1
    /\ UNCHANGED <<flag_bits, log_file, file_fds,
                   log_socket, sock_open, sock_conn,
                   sock_type, log_queue, log_mutex, close_writer,
                   writer_thread, writerv, pc, enqueued, stopAt,
                   joinAt, initAt>>

\* open(2) and socket(2) return the lowest descriptor that is not open
LowestFree(open) ==
    {fd \in Fds : fd \notin open /\ \A g \in Fds : g < fd => g \in open}

\* a set_file that opens the new file with the previous one still open
KeptOpen(fds, cur) == fds

\* oak.cpp:46-49: set_file closes the file log_file holds, if any
ClosedFirst(fds, cur) == IF cur # "closed" THEN {} ELSE fds

\* oak.cpp:54: log_file.open(file): the open succeeds when the path exists,
\* the system call does not fail and a descriptor is free
FileOpens(path, sys, open) ==
    path \in Files /\ sys /\ LowestFree(open) # {}

\* oak.cpp:54: the descriptors log_file holds after log_file.open(file)
OpenFile(fds, path, sys, open) ==
    IF FileOpens(path, sys, open) THEN fds \cup LowestFree(open) ELSE fds

\* oak.cpp:69-70: close_file closes the file log_file holds, if any
ClosedFile(fds, cur) == IF cur # "closed" THEN {} ELSE fds

\* a set_file that leaves out the close of the file already open, on
\* which log_file.open then fails
FileNotReplaced(cur, path, opens) ==
    IF cur # "closed" THEN cur
    ELSE IF path \in Files /\ opens THEN path ELSE "closed"

\* a set_file that tests the path before it closes the open file
FileKeptOnFailure(cur, path, opens) ==
    IF path \in Files /\ opens THEN path ELSE cur

\* oak.cpp:46-62: the file held by log_file when set_file(path) returns: the
\* open file cur is closed first; then a path that does not exist, or an
\* open that fails, leaves log_file closed.
FileAfterSetFile(cur, path, opens) ==
    IF path \in Files /\ opens THEN path ELSE "closed"

\* oak.cpp:50-63: the value set_file(path) returns
SetFileResult(path, opens) == IF path \in Files /\ opens THEN "ok" ELSE "err"

\* oak.cpp:43-64: set_file(file), one critical section, for a file among
\* paths
SetFileAmong(t, paths) ==
    /\ pc[t] = "idle"
    /\ ncalls > 0
    /\ LockGuard(t)
    /\ \E f \in paths, sys \in BOOLEAN :
         LET kept == ClosedFirst(file_fds, log_file)
             opens == FileOpens(f, sys, kept \cup sock_open)
         IN
         /\ log_file' = FileAfterSetFile(log_file, f, opens)
         /\ file_fds' = OpenFile(kept, f, sys, kept \cup sock_open)
         /\ last' = [NoLast EXCEPT !.op = "set_file", !.arg = f,
                                   !.res = SetFileResult(f, opens),
                                   !.before = log_file]
    /\ loc' = Dirty
    /\ ncalls' = ncalls - 1
    /\ UNCHANGED <<log_level, flag_bits, log_socket, sock_open, sock_conn,
                   sock_type, log_queue, log_mutex, close_writer,
                   writer_thread, writerv, pc, enqueued, stopAt,
                   joinAt, initAt>>

SetFile(t) == SetFileAmong(t, Paths)

\* a close_file that leaves the file open
FileNotClosed(cur) == cur

\* oak.cpp:69-70: the file held by log_file when close_file() returns
FileAfterClose(cur) == "closed"

\* oak.cpp:66-71: close_file()
CloseFile(t) ==
    /\ pc[t] = "idle"
    /\ ncalls > 0
    /\ LockGuard(t)
    /\ log_file' = FileAfterClose(log_file)
    /\ file_fds' = ClosedFile(file_fds, log_file)
    /\ last' = [NoLast EXCEPT !.op = "close_file", !.res = "ok",
                              !.before = log_file]
    /\ loc' = Dirty
    /\ ncalls' = ncalls - 1
    /\ UNCHANGED <<log_level, flag_bits, log_socket, sock_open, sock_conn,
                   sock_type, log_queue, log_mutex, close_writer,
                   writer_thread, writerv, pc, enqueued, stopAt,
                   joinAt, initAt>>

\* close(fd) on the descriptor table
CloseFd(open, fd) == open \ {fd}

\* close(fd) on the types of the descriptors
CloseType(types, fd) == [types EXCEPT ![fd] = "none"]

\* oak.cpp:74-79: close_socket() closes the descriptor and leaves log_socket
\* as it is
CloseSocket(t) ==
    /\ pc[t] = "idle"
    /\ ncalls > 0
    /\ LockGuard(t)
    /\ IF log_socket > 0
       THEN /\ sock_open' = CloseFd(sock_open, log_socket)
            /\ sock_conn' = CloseFd(sock_conn, log_socket)
            /\ sock_type' = CloseType(sock_type, log_socket)
       ELSE UNCHANGED <<sock_open, sock_conn, sock_type>>
    /\ last' = [NoLast EXCEPT !.op = "close_socket", !.res = "ok",
                              !.before = log_file]
    /\ loc' = Dirty
    /\ ncalls' = ncalls - 1
    /\ UNCHANGED <<log_level, flag_bits, log_file, file_fds,
                   log_socket, log_queue,
                   log_mutex, close_writer, writer_thread, writerv, pc,
                   enqueued, stopAt, joinAt, initAt>>

\* socket(2): the lowest free descriptor, or -1 when there is none or the
\* call fails
SocketResults(open) == {-1} \cup LowestFree(open)

\* oak.cpp:254-266: set_socket(sock_addr) takes the mutex for the whole call;
\* an address over 108 characters returns at once, otherwise the descriptor
\* in log_socket is closed.
SetSocketEnter(t) ==
    /\ pc[t] = "idle"
    /\ ncalls > 0
    /\ LockGuard(t)
    /\ ncalls' = ncalls - 1
    /\ \E toolong \in BOOLEAN :
         IF toolong
         THEN /\ last' = [NoLast EXCEPT !.op = "set_socket", !.arg = "unix",
                                        !.res = "err", !.before = log_file]
              /\ UNCHANGED <<log_mutex, pc, loc, sock_open, sock_conn,
                             sock_type>>
         ELSE /\ log_mutex' = t
              /\ pc' = [pc EXCEPT ![t] = "ss_socket"]
              /\ loc' = Dirty
              /\ last' = [NoLast EXCEPT !.op = "set_socket", !.arg = "unix",
                                        !.before = log_file]
              /\ IF log_socket > 0
                 THEN /\ sock_open' = CloseFd(sock_open, log_socket)
                      /\ sock_conn' = CloseFd(sock_conn, log_socket)
                      /\ sock_type' = CloseType(sock_type, log_socket)
                 ELSE UNCHANGED <<sock_open, sock_conn, sock_type>>
    /\ UNCHANGED <<log_level, flag_bits, log_file, file_fds,
                   log_socket, log_queue,
                   close_writer, writer_thread, writerv, enqueued,
                   stopAt, joinAt, initAt>>

\* oak.cpp:268-285: log_socket = socket(AF_UNIX, SOCK_STREAM, 0), then
\* connect; every return releases the mutex
SetSocketCreate(t) ==
    /\ pc[t] = "ss_socket"
    /\ log_mutex = t
    /\ \E fd \in SocketResults(sock_open \cup file_fds), connects \in BOOLEAN :
         /\ log_socket' = fd
         /\ sock_open' = IF fd < 0 THEN sock_open ELSE sock_open \cup {fd}
         /\ sock_type' = IF fd < 0 THEN sock_type
                         ELSE [sock_type EXCEPT ![fd] = "stream"]
         /\ sock_conn' = IF fd >= 0 /\ connects THEN sock_conn \cup {fd}
                         ELSE sock_conn
         /\ last' = [last EXCEPT
                       !.res = IF fd >= 0 /\ connects THEN "ok" ELSE "err"]
    /\ log_mutex' = Released(t)
    /\ pc' = [pc EXCEPT ![t] = "idle"]
    /\ loc' = Dirty
    /\ UNCHANGED <<log_level, flag_bits, log_file, file_fds,
                   log_queue, close_writer,
                   writer_thread, writerv, enqueued, ncalls, stopAt,
                   joinAt, initAt>>

\* oak.cpp:297-303: the type of the socket the switch on protocol creates
SwitchType(proto) == IF proto = "udp" THEN "dgram" ELSE "stream"

\* oak.cpp:308: the type of the socket created after the switch
FinalType(proto) == "stream"

\* socket(2) returning fd: the descriptor is open and of type ty
OpenType(types, fd, ty) == IF fd < 0 THEN types ELSE [types EXCEPT ![fd] = ty]

\* oak.cpp:287-307: set_socket(addr, port, protocol) takes the mutex for the
\* whole call and closes the descriptor in log_socket; a protocol that is
\* neither tcp nor udp returns at once; otherwise the switch stores a socket
\* of the requested type in log_socket.
SetSocketNetEnter(t) ==
    /\ pc[t] = "idle"
    /\ ncalls > 0
    /\ LockGuard(t)
    /\ ncalls' = ncalls - 1
    /\ LET closed == IF log_socket > 0 THEN CloseFd(sock_open, log_socket)
                     ELSE sock_open
           types == IF log_socket > 0 THEN CloseType(sock_type, log_socket)
                    ELSE sock_type
       IN /\ sock_conn' = IF log_socket > 0 THEN CloseFd(sock_conn, log_socket)
                          ELSE sock_conn
          /\ \E proto \in Protocols :
               IF proto = "invalid"
               THEN /\ last' = [NoLast EXCEPT !.op = "set_socket_net",
                                   !.arg = proto, !.res = "err",
                                   !.before = log_file]
                    /\ sock_open' = closed
                    /\ sock_type' = types
                    /\ loc' = Dirty
                    /\ UNCHANGED <<log_mutex, pc, log_socket>>
               ELSE \E fd \in SocketResults(closed \cup file_fds) :
                    /\ log_socket' = fd
                    /\ sock_open' = IF fd < 0 THEN closed ELSE closed \cup {fd}
                    /\ sock_type' = OpenType(types, fd, SwitchType(proto))
                    /\ last' = [NoLast EXCEPT !.op = "set_socket_net",
                                   !.arg = proto, !.before = log_file]
                    /\ log_mutex' = t
                    /\ pc' = [pc EXCEPT ![t] = "sn_socket"]
                    /\ loc' = [Dirty EXCEPT ![t].proto = proto]
    /\ UNCHANGED <<log_level, flag_bits, log_file, file_fds,
                   log_queue, close_writer,
                   writer_thread, writerv, enqueued, stopAt, joinAt, initAt>>

\* oak.cpp:308-329: log_socket = socket(AF_INET, SOCK_STREAM, 0) once more,
\* the descriptor of the switch staying open; then inet_pton and connect;
\* every return releases the mutex
SetSocketNetCreate(t) ==
    /\ pc[t] = "sn_socket"
    /\ log_mutex = t
    /\ \E fd \in SocketResults(sock_open \cup file_fds), valid \in BOOLEAN,
          connects \in BOOLEAN :
         /\ log_socket' = fd
         /\ sock_open' = IF fd < 0 THEN sock_open ELSE sock_open \cup {fd}
         /\ sock_type' = OpenType(sock_type, fd, FinalType(loc[t].proto))
         /\ sock_conn' = IF fd >= 0 /\ valid /\ connects
                         THEN sock_conn \cup {fd} ELSE sock_conn
         /\ last' = [last EXCEPT
                       !.res = IF fd >= 0 /\ valid /\ connects
                               THEN "ok" ELSE "err"]
    /\ log_mutex' = Released(t)
    /\ pc' = [pc EXCEPT ![t] = "idle"]
    /\ loc' = [Dirty EXCEPT ![t] = NoLoc]
    /\ UNCHANGED <<log_level, flag_bits, log_file, file_fds,
                   log_queue, close_writer,
                   writer_thread, writerv, enqueued, ncalls, stopAt,
                   joinAt, initAt>>

\* -------------------------------------------------------------------- flags

\* Another thread wrote the configuration during the calls running.
DirtyBut(t) == [u \in Threads |-> IF u = t \/ pc[u] = "idle" THEN loc[u]
                                  ELSE [loc[u] EXCEPT !.dirty = TRUE]]

\* A thread calls set_flags(flg, args...).
CallSetFlags(t) ==
    /\ pc[t] = "idle"
    /\ ncalls > 0
    /\ \E fs \in FlagArgs :
         loc' = [loc EXCEPT ![t] = [NoLoc EXCEPT !.op = "set_flags",
                    !.flags = fs, !.given = fs, !.was = flag_bits]]
    /\ pc' = [pc EXCEPT ![t] = "sf_clear"]
    /\ ncalls' = ncalls - 1
    /\ UNCHANGED <<config, log_queue, log_mutex, close_writer, writer_thread,
                   writerv, enqueued, stopAt, joinAt, initAt>>

\* a set_flags that keeps the bits that were set
FlagsKept(bits) == bits

\* part_008:190: logger::flag_bits = 0
FlagsCleared(bits) == 0

\* part_008:188-192: set_flags clears flag_bits in a critical section of
\* its own, then calls add_flags(flg, args...)
SetFlagsClear(t) ==
    /\ pc[t] = "sf_clear"
    /\ LockGuard(t)
    /\ flag_bits' = FlagsCleared(flag_bits)
    /\ pc' = [pc EXCEPT ![t] = "af_add"]
    /\ loc' = DirtyBut(t)
    /\ UNCHANGED <<log_level, log_file, log_socket, sock_open, sock_conn,
                   sock_type, file_fds, last, log_queue, log_mutex,
                   close_writer, writer_thread, writerv, enqueued, ncalls,
                   stopAt, joinAt, initAt>>

\* A thread calls add_flags(flg, args...).
CallAddFlags(t) ==
    /\ pc[t] = "idle"
    /\ ncalls > 0
    /\ \E fs \in FlagArgs :
         loc' = [loc EXCEPT ![t] = [NoLoc EXCEPT !.op = "add_flags",
                    !.flags = fs, !.given = fs, !.was = flag_bits]]
    /\ pc' = [pc EXCEPT ![t] = "af_add"]
    /\ ncalls' = ncalls - 1
    /\ UNCHANGED <<config, log_queue, log_mutex, close_writer, writer_thread,
                   writerv, enqueued, stopAt, joinAt, initAt>>

\* part_008:165-184: add_flags ors its first argument into flag_bits in a
\* critical section of its own, then calls itself on the arguments left
AddFlagsStep(t) ==
    /\ pc[t] = "af_add"
    /\ LockGuard(t)
    /\ flag_bits' = BitOr(flag_bits, Head(loc[t].flags))
    /\ loc' = [DirtyBut(t) EXCEPT ![t].flags = Tail(@)]
    /\ pc' = [pc EXCEPT ![t] = IF Len(loc[t].flags) > 1 THEN "af_add"
                               ELSE "fl_ret"]
    /\ UNCHANGED <<log_level, log_file, log_socket, sock_open, sock_conn,
                   sock_type, file_fds, last, log_queue, log_mutex,
                   close_writer, writer_thread, writerv, enqueued, ncalls,
                   stopAt, joinAt, initAt>>

\* part_008:165-193: set_flags or add_flags returns
FlagsReturn(t) ==
    /\ pc[t] = "fl_ret"
    /\ pc' = [pc EXCEPT ![t] = "idle"]
    /\ loc' = [loc EXCEPT ![t] = NoLoc]
    /\ UNCHANGED <<config, log_queue, log_mutex, close_writer, writer_thread,
                   writerv, enqueued, ncalls, stopAt, joinAt, initAt>>

FlagStep(t) ==
    \/ SetFlagsClear(t)
    \/ AddFlagsStep(t)
    \/ FlagsReturn(t)

\* ------------------------------------------------------------ settings_file

\* The paths given to settings_file: the empty path, a path that does not
\* exist, and a settings file.
SettingsFiles == {"S"}
SettingsPaths == SettingsFiles \cup {"", "nope"}

\* A line of a settings file after oak.cpp:157-162: the key before the '='
\* and the value after it, spaces removed; the value is written as its
\* pieces between commas.
SettingsLines ==
    {[key |-> "level", value |-> <<v>>] : v \in {"info", "error", "disabled"}}
    \cup {[key |-> "flags", value |-> v] :
             v \in {<<"level", "date", "time", "pid", "tid">>, <<"json">>,
                    <<"none">>, <<"level", "bogus">>}}
    \cup {[key |-> "file", value |-> <<v>>] : v \in Paths}
    \cup {[key |-> "bogus", value |-> <<"x">>]}

RECURSIVE SeqsUpTo(_, _)
SeqsUpTo(S, n) ==
    IF n = 0 THEN {<<>>}
    ELSE LET shorter == SeqsUpTo(S, n - 1)
         IN shorter \cup {Append(s, x) : s \in shorter, x \in S}

SettingsContents == SeqsUpTo(SettingsLines, MaxLines)

\* oak.cpp:164-177: the level a value names; -1 stands for the else branch
ParseLevel(v) ==
    CASE v = "debug" -> debug
      [] v = "info" -> info
      [] v = "warn" -> warn
      [] v = "error" -> error
      [] v = "output" -> output
      [] OTHER -> -1

\* oak.cpp:186-201, 204-219: the flag a piece of the value names; -1 stands
\* for the else branch
ParseFlag(v) ==
    CASE v = "none" -> flag_none
      [] v = "level" -> flag_level
      [] v = "date" -> flag_date
      [] v = "time" -> flag_time
      [] v = "pid" -> flag_pid
      [] v = "tid" -> flag_tid
      [] v = "json" -> flag_json
      [] OTHER -> -1

\* oak.cpp:138-149: settings_file(file): an empty path and a path that does
\* not exist return an error; otherwise the file is opened for reading; the
\* file holds one of the texts of contents
CallSettingsFileOf(t, contents) ==
    /\ pc[t] = "idle"
    /\ ncalls > 0
    /\ ncalls' = ncalls - 1
    /\ \E path \in SettingsPaths, text \in contents :
         IF path = "" \/ path \notin SettingsFiles
         THEN /\ last' = [NoLast EXCEPT !.op = "settings_file", !.arg = path,
                                        !.res = "err", !.before = log_file]
              /\ UNCHANGED <<pc, loc>>
         ELSE /\ loc' = [loc EXCEPT ![t] = [NoLoc EXCEPT
                           !.op = "settings_file", !.lines = text,
                           !.content = text, !.was = flag_bits,
                           !.waslvl = log_level, !.wasfile = log_file]]
              /\ pc' = [pc EXCEPT ![t] = "st_line"]
              /\ UNCHANGED last
    /\ UNCHANGED <<log_level, flag_bits, log_file, file_fds, log_socket,
                   sock_open, sock_conn, sock_type, log_queue, log_mutex,
                   close_writer, writer_thread, writerv, enqueued,
                   stopAt, joinAt, initAt>>

CallSettingsFile(t) == CallSettingsFileOf(t, SettingsContents)

\* oak.cpp:150-155, 235: the loop test and getline: at the end of the file
\* settings_file returns 0
SettingsEnd(t) ==
    /\ pc[t] = "st_line"
    /\ loc[t].lines = <<>>
    /\ loc' = [loc EXCEPT ![t].res = "ok"]
    /\ pc' = [pc EXCEPT ![t] = "st_ret"]
    /\ UNCHANGED <<config, log_queue, log_mutex, close_writer, writer_thread,
                   writerv, enqueued, ncalls, stopAt, joinAt, initAt>>

\* oak.cpp:164-178: a level line calls set_level with the level named, or
\* returns an error
SettingsLevel(t) ==
    /\ pc[t] = "st_line"
    /\ loc[t].lines # <<>>
    /\ Head(loc[t].lines).key = "level"
    /\ LET v == Head(loc[t].lines).value
       IN IF Len(v) = 1 /\ ParseLevel(v[1]) >= 0
          THEN /\ LockGuard(t)
               /\ log_level' = LevelAfterSet(log_level, ParseLevel(v[1]))
               /\ loc' = [DirtyBut(t) EXCEPT ![t].lines = Tail(@)]
               /\ UNCHANGED pc
          ELSE /\ loc' = [loc EXCEPT ![t].res = "err"]
               /\ pc' = [pc EXCEPT ![t] = "st_ret"]
               /\ UNCHANGED log_level
    /\ UNCHANGED <<flag_bits, log_file, file_fds, log_socket, sock_open,
                   sock_conn, sock_type, last, log_queue, log_mutex,
                   close_writer, writer_thread, writerv, enqueued, ncalls,
                   stopAt, joinAt, initAt>>

\* a flags line that adds to the flags that were set
SettingsFlagsAdd(bits) == bits

\* oak.cpp:181: set_flags(flags::none)
SettingsFlagsStart(bits) == BitOr(FlagsCleared(bits), flag_none)

\* oak.cpp:179-181: a flags line first calls set_flags(flags::none)
SettingsFlags(t) ==
    /\ pc[t] = "st_line"
    /\ loc[t].lines # <<>>
    /\ Head(loc[t].lines).key = "flags"
    /\ LockGuard(t)
    /\ flag_bits' = SettingsFlagsStart(flag_bits)
    /\ loc' = [DirtyBut(t) EXCEPT ![t].flags = Head(loc[t].lines).value,
                                  ![t].lines = Tail(@)]
    /\ pc' = [pc EXCEPT ![t] = "st_flag"]
    /\ UNCHANGED <<log_level, log_file, file_fds, log_socket, sock_open,
                   sock_conn, sock_type, last, log_queue, log_mutex,
                   close_writer, writer_thread, writerv, enqueued, ncalls,
                   stopAt, joinAt, initAt>>

\* oak.cpp:182-220: each piece of the value in turn, the last one included,
\* calls add_flags with the flag it names or returns an error
SettingsFlag(t) ==
    /\ pc[t] = "st_flag"
    /\ IF loc[t].flags = <<>>
       THEN /\ pc' = [pc EXCEPT ![t] = "st_line"]
            /\ UNCHANGED <<flag_bits, loc>>
       ELSE IF ParseFlag(Head(loc[t].flags)) >= 0
       THEN /\ LockGuard(t)
            /\ flag_bits' = BitOr(flag_bits, ParseFlag(Head(loc[t].flags)))
            /\ loc' = [DirtyBut(t) EXCEPT ![t].flags = Tail(@)]
            /\ UNCHANGED pc
       ELSE /\ loc' = [loc EXCEPT ![t].res = "err"]
            /\ pc' = [pc EXCEPT ![t] = "st_ret"]
            /\ UNCHANGED flag_bits
    /\ UNCHANGED <<log_level, log_file, file_fds, log_socket, sock_open,
                   sock_conn, sock_type, last, log_queue, log_mutex,
                   close_writer, writer_thread, writerv, enqueued, ncalls,
                   stopAt, joinAt, initAt>>

\* oak.cpp:221-228: a file line calls set_file(value) and returns an error
\* when set_file does
SettingsSetFile(t) ==
    /\ pc[t] = "st_line"
    /\ loc[t].lines # <<>>
    /\ Head(loc[t].lines).key = "file"
    /\ LockGuard(t)
    /\ \E sys \in BOOLEAN :
         LET f == Head(loc[t].lines).value[1]
             kept == ClosedFirst(file_fds, log_file)
             opens == FileOpens(f, sys, kept \cup sock_open)
         IN /\ log_file' = FileAfterSetFile(log_file, f, opens)
            /\ file_fds' = OpenFile(kept, f, sys, kept \cup sock_open)
            /\ IF SetFileResult(f, opens) = "ok"
               THEN /\ loc' = [DirtyBut(t) EXCEPT ![t].lines = Tail(@)]
                    /\ UNCHANGED pc
               ELSE /\ loc' = [DirtyBut(t) EXCEPT ![t].res = "err"]
                    /\ pc' = [pc EXCEPT ![t] = "st_ret"]
    /\ UNCHANGED <<log_level, flag_bits, log_socket, sock_open, sock_conn,
                   sock_type, last, log_queue, log_mutex, close_writer,
                   writer_thread, writerv, enqueued, ncalls, stopAt,
                   joinAt, initAt>>

\* oak.cpp:229-232: any other key returns an error
SettingsBadKey(t) ==
    /\ pc[t] = "st_line"
    /\ loc[t].lines # <<>>
    /\ Head(loc[t].lines).key \notin {"level", "flags", "file"}
    /\ loc' = [loc EXCEPT ![t].res = "err"]
    /\ pc' = [pc EXCEPT ![t] = "st_ret"]
    /\ UNCHANGED <<config, log_queue, log_mutex, close_writer, writer_thread,
                   writerv, enqueued, ncalls, stopAt, joinAt, initAt>>

\* settings_file returns to its caller
SettingsReturn(t) ==
    /\ pc[t] = "st_ret"
    /\ last' = [NoLast EXCEPT !.op = "settings_file", !.arg = "S",
                              !.res = loc[t].res, !.before = loc[t].wasfile]
    /\ pc' = [pc EXCEPT ![t] = "idle"]
    /\ loc' = [loc EXCEPT ![t] = NoLoc]
    /\ UNCHANGED <<log_level, flag_bits, log_file, file_fds, log_socket,
                   sock_open, sock_conn, sock_type, log_queue, log_mutex,
                   close_writer, writer_thread, writerv, enqueued, ncalls,
                   stopAt, joinAt, initAt>>

SettingsStep(t) ==
    \/ SettingsEnd(t)
    \/ SettingsLevel(t)
    \/ SettingsFlags(t)
    \/ SettingsFlag(t)
    \/ SettingsSetFile(t)
    \/ SettingsBadKey(t)
    \/ SettingsReturn(t)

\* -------------------------------------------------------------------- flush

\* a flush that does not take the mutex
FlushUnlocked(t) == "free"

\* oak.cpp:336: the owner of log_mutex inside flush()'s lock_guard
FlushLocked(t) == t

\* oak.cpp:334-339: flush() takes log_mutex, then flushes std::cout and,
\* when log_file is open, log_file; the queue is not looked at
CallFlush(t) ==
    /\ pc[t] = "idle"
    /\ ncalls > 0
    /\ LockGuard(t)
    /\ log_mutex' = FlushLocked(t)
    /\ loc' = [loc EXCEPT ![t] = [NoLoc EXCEPT !.op = "flush",
                                                !.wasfile = log_file]]
    /\ pc' = [pc EXCEPT ![t] = "flush"]
    /\ ncalls' = ncalls - 1
    /\ UNCHANGED <<config, log_queue, close_writer, writer_thread, writerv,
                   enqueued, stopAt, joinAt, initAt>>

\* oak.cpp:340: flush() returns and its lock_guard releases log_mutex
FlushReturn(t) ==
    /\ pc[t] = "flush"
    /\ log_mutex' = Released(t)
    /\ loc' = [loc EXCEPT ![t] = NoLoc]
    /\ pc' = [pc EXCEPT ![t] = "idle"]
    /\ UNCHANGED <<config, log_queue, close_writer, writer_thread, writerv,
                   enqueued, ncalls, stopAt, joinAt, initAt>>

\* --------------------------------------------------------------- lifecycle

\* an init_writer() that clears the shutdown request
ResetOnInit(cw) == FALSE

\* oak.cpp:126-129: init_writer() does not assign close_writer
KeptOnInit(cw) == cw

\* oak.cpp:126-129: init_writer() emplaces the jthread running writer()
InitWriter ==
    /\ pc["main"] = "idle"
    /\ writer_thread = "nullopt"
    /\ writer_thread' = "running"
    /\ close_writer' = KeptOnInit(close_writer)
    /\ wpc' = "loop"
    /\ live' = live + 1
    /\ initAt' = IF initAt < 0 THEN Len(enqueued) ELSE initAt
    /\ UNCHANGED <<config, log_queue, log_mutex, welem, pc, loc,
                   enqueued, dispatched, ncalls, stopAt, joinAt>>

\* an emplace that does not wait for the thread it replaces
NoJoin == TRUE

\* std::jthread::~jthread, run by emplace on the handle it replaces
\* (oak.cpp:128): a joinable thread is joined, so the destructor returns
\* only once that thread has exited
JoinedOnDestroy == writer_thread = "joined" \/ wpc = "done"

\* oak.cpp:128: init_writer() with a handle already in writer_thread:
\* emplace first destroys the jthread it holds
InitWriterDestroy ==
    /\ pc["main"] = "idle"
    /\ writer_thread # "nullopt"
    /\ pc' = [pc EXCEPT !["main"] = "init_join"]
    /\ UNCHANGED <<config, log_queue, log_mutex, close_writer, writer_thread,
                   writerv, loc, enqueued, ncalls, stopAt, joinAt, initAt>>

\* oak.cpp:128: the destructor has returned; the new jthread is constructed
\* and starts writer()
InitWriterEmplace ==
    /\ pc["main"] = "init_join"
    /\ JoinedOnDestroy
    /\ writer_thread' = "running"
    /\ close_writer' = KeptOnInit(close_writer)
    /\ wpc' = "loop"
    /\ live' = live + 1
    /\ initAt' = IF initAt < 0 THEN Len(enqueued) ELSE initAt
    /\ pc' = [pc EXCEPT !["main"] = "idle"]
    /\ UNCHANGED <<config, log_queue, log_mutex, welem, loc,
                   enqueued, dispatched, ncalls, stopAt, joinAt>>

\* oak.cpp:133: stop_writer() sets close_writer, without the mutex
StopWriterSet ==
    /\ pc["main"] = "idle"
    /\ writer_thread = "running"
    /\ close_writer' = TRUE
    /\ stopAt' = Len(enqueued)
    /\ pc' = [pc EXCEPT !["main"] = "stop_notify"]
    /\ UNCHANGED <<config, log_queue, log_mutex, writer_thread, writerv, loc,
                   enqueued, ncalls, joinAt, initAt>>

\* oak.cpp:134
StopWriterNotify ==
    /\ pc["main"] = "stop_notify"
    /\ wpc' = NotifyOne(wpc)
    /\ pc' = [pc EXCEPT !["main"] = "stop_join"]
    /\ UNCHANGED <<config, log_queue, log_mutex, close_writer, writer_thread,
                   welem, live, loc, enqueued, dispatched, ncalls,
                   stopAt, joinAt, initAt>>

\* oak.cpp:135: join() returns once the writer thread has exited
StopWriterJoin ==
    /\ pc["main"] = "stop_join"
    /\ wpc = "done"
    /\ writer_thread' = "joined"
    /\ joinAt' = IF joinAt < 0 THEN Len(enqueued) ELSE joinAt
    /\ pc' = [pc EXCEPT !["main"] = "idle"]
    /\ UNCHANGED <<config, log_queue, log_mutex, close_writer, writerv, loc,
                   enqueued, ncalls, stopAt, initAt>>

\* ---------------------------------------------------------- specifications

ThreadStep(t) ==
    \/ AddToQueuePush(t)
    \/ AddToQueueNotify(t)

LogStep(t) ==
    \/ LogLevel(t)
    \/ LogFormat(t)
    \/ LogIsFileOpen(t)
    \/ LogToFileStr(t)
    \/ LogSocketTest(t)
    \/ LogToSocketStr(t)
    \/ LogReturn(t)

Next ==
    \/ \E t \in Threads : CallAddToQueue(t)
    \/ \E t \in Threads : ThreadStep(t)
    \/ InitWriter
    \/ StopWriterSet
    \/ StopWriterNotify
    \/ StopWriterJoin
    \/ WriterStep
    \/ SpuriousWake

Spec == Init /\ [][Next]_vars

\* log calls running against configuration calls.  The writer only removes
\* records from the queue (Spec), so it is left out here and what a call
\* enqueued is read from the call's history.
InitLog == Start(MaxLogCalls)

NextLog ==
    \/ \E t \in Threads : CallLog(t)
    \/ \E t \in Threads : LogStep(t)
    \/ \E t \in Threads : ThreadStep(t)
    \/ \E t \in Threads : SetLevel(t)
    \/ \E t \in Threads : SetFile(t)
    \/ \E t \in Threads : CloseFile(t)
    \/ \E t \in Threads : CloseSocket(t)
    \/ \E t \in Threads : SetSocketEnter(t)
    \/ \E t \in Threads : SetSocketCreate(t)

LogSpec == InitLog /\ [][NextLog]_vars

\* The scheduling the code can rely on: a thread that can take a step of the
\* call it is in eventually takes it, and so does the writer thread.  No
\* fairness is assumed of spurious wake-ups or of new calls being made.
Fairness ==
    /\ \A t \in Threads : WF_vars(ThreadStep(t))
    /\ WF_vars(StopWriterNotify)
    /\ WF_vars(StopWriterJoin)
    /\ WF_vars(WriterStep)

InitFair == Start(MaxFairCalls)

FairSpec == InitFair /\ [][Next]_vars /\ Fairness

\* The writer draining the queue while the sinks are opened and closed: the
\* main thread makes the configuration calls and starts the writer, the
\* thread p1 calls add_to_queue (part_013: tests configure from main()).
InitSink == Start(MaxSinkCalls)

ConfigStep(t) ==
    \/ SetFile(t)
    \/ CloseFile(t)
    \/ CloseSocket(t)
    \/ SetSocketEnter(t)
    \/ SetSocketCreate(t)
    \/ SetSocketNetEnter(t)
    \/ SetSocketNetCreate(t)

NextSink ==
    \/ CallAddToQueue("p1")
    \/ ThreadStep("p1")
    \/ ConfigStep("main")
    \/ InitWriter
    \/ WriterStep

SinkSpec == InitSink /\ [][NextSink]_vars

\* A client that logs to a unix socket and to a file: the main thread calls
\* set_socket(sock_addr), close_socket() and set_file(path) and starts the
\* writer, the thread p1 calls add_to_queue.
InitReuse == Start(MaxReuseCalls)

NextReuse ==
    \/ CallAddToQueue("p1")
    \/ ThreadStep("p1")
    \/ SetFile("main")
    \/ CloseSocket("main")
    \/ SetSocketEnter("main")
    \/ SetSocketCreate("main")
    \/ InitWriter
    \/ WriterStep

ReuseSpec == InitReuse /\ [][NextReuse]_vars

\* set_flags and add_flags calls of the two threads
InitFlag == Start(MaxFlagCalls)

NextFlag ==
    \/ \E t \in Threads : CallSetFlags(t)
    \/ \E t \in Threads : CallAddFlags(t)
    \/ \E t \in Threads : FlagStep(t)

FlagSpec == InitFlag /\ [][NextFlag]_vars

\* settings_file calls of the main thread, one after the other
InitSettings == Start(MaxSettingsCalls)

NextSettings ==
    \/ CallSettingsFile("main")
    \/ SettingsStep("main")

SettingsSpec == InitSettings /\ [][NextSettings]_vars

\* The leveled single-sink producers, called by the thread p1 while the main
\* thread sets the level, the file and the socket.
InitProducer == Start(MaxProducerCalls)

NextProducer ==
    \/ CallLogTo("p1")
    \/ LogToStep("p1")
    \/ ThreadStep("p1")
    \/ SetLevel("main")
    \/ SetFile("main")
    \/ SetSocketEnter("main")
    \/ SetSocketCreate("main")

ProducerSpec == InitProducer /\ [][NextProducer]_vars

\* The log file replaced and closed while records tagged file are in the
\* queue: the main thread calls set_file with either of two files that
\* exist, close_file and init_writer, the thread p1 calls add_to_queue.
InitFile == Start(MaxFileCalls)

NextFile ==
    \/ CallAddToQueue("p1")
    \/ ThreadStep("p1")
    \/ SetFileAmong("main", Files)
    \/ CloseFile("main")
    \/ InitWriter
    \/ WriterStep

FileSpec == InitFile /\ [][NextFile]_vars

\* flush() called while records are queued and written: the main thread
\* sets the file and the level, starts the writer and calls flush, the
\* thread p1 calls add_to_queue.
InitFlush == Start(MaxFlushCalls)

NextFlush ==
    \/ CallAddToQueue("p1")
    \/ ThreadStep("p1")
    \/ SetFile("main")
    \/ SetLevel("main")
    \/ CallFlush("main")
    \/ FlushReturn("main")
    \/ InitWriter
    \/ WriterStep

FlushSpec == InitFlush /\ [][NextFlush]_vars

\* Every operation that takes log_mutex, running against the writer and
\* against log calls of a second thread: the main thread calls log,
\* settings_file, flush, set_level, set_file, close_file, set_socket (both
\* forms) and close_socket and starts the writer, the thread p1 calls
\* add_to_queue.
\* The settings file sets the level, the flags and the file, or fails on
\* its second line, or on an unknown key.
MutexSettings ==
    { << [key |-> "level", value |-> <<"info">>],
         [key |-> "flags", value |-> <<"level", "json">>],
         [key |-> "file", value |-> <<"F">>] >>,
      << [key |-> "file", value |-> <<"F">>],
         [key |-> "flags", value |-> <<"level", "bogus">>] >>,
      << [key |-> "bogus", value |-> <<"x">>] >> }

InitMutex == Start(MaxMutexCalls)

MainStep(t) ==
    \/ CallLog(t)
    \/ CallSettingsFileOf(t, MutexSettings)
    \/ SettingsStep(t)
    \/ CallFlush(t)
    \/ FlushReturn(t)
    \/ SetLevel(t)
    \/ ConfigStep(t)

CallStep(t) ==
    \/ LogStep(t)
    \/ ThreadStep(t)

NextMutex ==
    \/ MainStep("main")
    \/ CallAddToQueue("p1")
    \/ \E t \in Threads : CallStep(t)
    \/ InitWriter
    \/ WriterStep

MutexSpec == InitMutex /\ [][NextMutex]_vars

\* every sequence of init_writer() and stop_writer() calls of the main
\* thread, init_writer() on a handle that holds a thread included
InitLife == Start(MaxLifeCalls)

NextLife ==
    \/ Next
    \/ InitWriterDestroy
    \/ InitWriterEmplace

LifeSpec == InitLife /\ [][NextLife]_vars

\* ------------------------------------------------------------------ claims

\* the handles of the two sinks and the descriptors they name
handles == <<log_file, log_socket, sock_open, sock_conn, sock_type>>

\* the uids of the records of s tagged d, in order
UidsTo(s, d) ==
    LET f == SelectSeq(s, LAMBDA e : e.dest = d)
    IN [i \in 1..Len(f) |-> f[i].uid]

IsPrefix(s, t) == Len(s) <= Len(t) /\ \A i \in 1..Len(s) : s[i] = t[i]

\* C1: when stop_writer() has returned and no record was pushed during or
\* after the stop call, the queue is empty and every enqueued record has
\* been dispatched.
C1_StopDrainsQueue ==
    (writer_thread = "joined" /\ Len(enqueued) = stopAt)
        => (log_queue = <<>> /\ Len(dispatched) = Len(enqueued))

\* C2: under fair scheduling a stop_writer() call that has set close_writer
\* eventually returns from join().
C2_StopReturns ==
    (pc["main"] = "stop_notify") ~> (writer_thread = "joined")

\* C3: the records tagged with one destination are dispatched in the order
\* in which they were appended to the queue.
C3_PerDestinationFifo ==
    \A d \in Destinations : IsPrefix(UidsTo(dispatched, d), UidsTo(enqueued, d))

C3_Witness ==
    \E d \in Destinations :
        /\ Len(UidsTo(dispatched, d)) >= 2
        /\ Len(dispatched) > Len(UidsTo(dispatched, d))

\* C4: every enqueued record is in the queue exactly once or was dispatched
\* exactly once, never both; no record is invented; dispatched plus queued
\* equals enqueued.
C4_NoDuplicateNoInvented ==
    LET all == [i \in 1..Len(dispatched) |->
                   [uid |-> dispatched[i].uid,
                    message |-> dispatched[i].message,
                    dest |-> dispatched[i].dest]] \o log_queue
    IN /\ Len(dispatched) + Len(log_queue) = Len(enqueued)
       /\ \A i \in 1..Len(all) : all[i] = enqueued[i]

C4_Witness ==
    /\ wpc = "io"
    /\ dispatched[Len(dispatched)].sink = "dropped"
    /\ Len(log_queue) >= 1
    /\ \E t \in Threads : pc[t] = "aq_push"

\* C5: while the writer is running and shutdown is not requested, every
\* record appended to the queue is eventually dispatched.
C5_EnqueuedEventuallyDispatched ==
    \A k \in 1..MaxFairCalls :
        (Len(enqueued) >= k /\ writer_thread = "running")
            ~> (Len(dispatched) >= k \/ close_writer)

C5_Witness ==
    /\ wpc = "woken"
    /\ log_queue # <<>>
    /\ Len(dispatched) >= 1
    /\ ~close_writer

\* C6: the writer does not hold log_mutex while it is in a write to a sink,
\* so a producer's push can be made during the write.
C6_IoOutsideLock ==
    wpc = "io" => (log_mutex # "writer"
                   /\ \A t \in Threads :
                        pc[t] = "aq_push" => ENABLED AddToQueuePush(t))

\* C10: at the step where the writer leaves its loop and terminates, the
\* queue is empty.
C10_WriterExitsWithEmptyQueue ==
    [][(wpc = "loop" /\ wpc' = "done") => log_queue = <<>>]_vars

\* the destinations of the records of s, in order
DestsOf(s) == [i \in 1..Len(s) |-> s[i].dest]

\* C7: no thread reads a field of the shared logger state while another
\* thread writes it: no read of log_socket made without the mutex is
\* pending while a set_socket call is about to assign log_socket.
C7_NoDataRace ==
    \A t, u \in Threads :
        ~(pc[t] \in {"log_sock", "lts_sock"} /\ pc[u] = "ss_socket")

\* C8: a log call below the threshold it read enqueues nothing; a log call at
\* or above it enqueues the console record first.
C8_LevelFilter ==
    \A t \in Threads :
        pc[t] = "log_ret" =>
            /\ loc[t].lvl < loc[t].thr => loc[t].pushed = <<>>
            /\ loc[t].lvl >= loc[t].thr =>
                   /\ loc[t].pushed # <<>>
                   /\ loc[t].pushed[1].dest = "std_out"

C8_Witness ==
    /\ pc["main"] = "log_ret"
    /\ loc["main"].lvl = info /\ loc["main"].thr = warn
    /\ pc["p1"] = "log_ret"
    /\ loc["p1"].lvl = error /\ loc["p1"].thr = warn
    /\ log_file = "closed" /\ log_socket = NoSocket
    /\ Len(log_queue) = 1

\* C9: a log call that passes the threshold, with the configuration unchanged
\* while it runs, enqueues one std_out record, then one file record iff a
\* file is open, then one socket record iff a socket is connected, all with
\* the same payload.
C9_FanOut ==
    \A t \in Threads :
        (pc[t] = "log_ret" /\ loc[t].lvl >= loc[t].thr /\ ~loc[t].dirty) =>
            /\ DestsOf(loc[t].pushed) =
                   <<"std_out">>
                   \o (IF log_file # "closed" THEN <<"file">> ELSE <<>>)
                   \o (IF log_socket \in sock_conn THEN <<"socket">> ELSE <<>>)
            /\ \A i \in 1..Len(loc[t].pushed) :
                   loc[t].pushed[i].message = loc[t].pushed[1].message

\* C11: while the writer is writing a record to its sink it holds log_mutex,
\* and the file handle, the socket descriptor and the descriptors they name
\* are closed or replaced only in steps taken while the writer does not hold
\* the mutex; so no handle changes while a write is under way.
C11_HandlesStableDuringWrite ==
    /\ [](wpc = "io" => log_mutex = "writer")
    /\ [][handles' # handles => (log_mutex # "writer" /\ wpc # "io")]_vars

\* the writer is writing a record to the open file while further
\* configuration calls can still be made
C11_Witness ==
    /\ wpc = "io"
    /\ dispatched[Len(dispatched)].sink \in Files
    /\ log_file \in Files
    /\ ncalls > 0

\* C12: at most one writer thread exists at any time, whatever the sequence
\* of init_writer() and stop_writer() calls.
C12_AtMostOneWriter == live <= 1

\* after a stop_writer() and a second init_writer(), init_writer() is called
\* once more with no stop in between, while the thread it replaces runs
C12_Witness ==
    /\ pc["main"] = "init_join"
    /\ stopAt >= 0
    /\ writer_thread = "running"
    /\ wpc # "done"
    /\ live = 1

\* the records tagged d that the call thread t is in has enqueued
PushedTo(t, d) == SelectSeq(loc[t].pushed, LAMBDA e : e.dest = d)

\* C13: when close_socket() was the last configuration call, the socket
\* sink is inactive: log_socket does not pass the socket-open test, and a
\* log call that ran with no configuration call made during it has
\* enqueued no record tagged socket.
C13_CloseSocketClearsHandle ==
    last.op = "close_socket" =>
        /\ ~SocketSet(log_socket)
        /\ \A t \in Threads :
             (pc[t] = "log_ret" /\ ~loc[t].dirty) =>
                 PushedTo(t, "socket") = <<>>

\* a step that is a whole close_file() call
IsCloseFile ==
    ncalls' # ncalls /\ pc' = pc /\ last'.op = "close_file"

\* C14: when a successful set_file(path) was the last configuration call,
\* log_file holds path and exactly one file is open; when close_file() was
\* the last one, no file is open and a log call that ran with no
\* configuration call made during it has enqueued no record tagged file;
\* and a close_file() call made with no file open changes nothing of the
\* logger's state.
C14_SetFileCloseFile ==
    /\ []((last.op = "set_file" /\ last.res = "ok") =>
            (log_file = last.arg /\ Cardinality(file_fds) = 1))
    /\ [](last.op = "close_file" =>
            /\ log_file = "closed"
            /\ file_fds = {}
            /\ \A t \in Threads :
                 (pc[t] = "log_ret" /\ ~loc[t].dirty) =>
                     PushedTo(t, "file") = <<>>)
    /\ [][(IsCloseFile /\ log_file = "closed") =>
            UNCHANGED <<log_level, flag_bits, log_file, log_socket, sock_open,
                        sock_conn, sock_type, file_fds, log_queue,
                        log_mutex, close_writer, writer_thread>>]_vars

\* set_file opened a file, close_file() closed it, and a log call made after
\* that has passed the level test, enqueued its records and returns
C14_Witness ==
    /\ last.op = "close_file"
    /\ last.before \in Files
    /\ \E t \in Threads :
         /\ pc[t] = "log_ret"
         /\ ~loc[t].dirty
         /\ loc[t].pushed # <<>>

\* C15: when the last configuration call was set_file(path) for a path that
\* does not exist, it returned an error value and no file is open, whatever
\* was open before the call.
C15_SetFileMissingPath ==
    (last.op = "set_file" /\ last.arg \notin Files) =>
        /\ last.res = "err"
        /\ log_file = "closed"
        /\ file_fds = {}

\* set_file was called for a path that does not exist while a file was open
C15_Witness ==
    /\ last.op = "set_file"
    /\ last.arg \notin Files
    /\ last.before \in Files
    /\ last.res = "err"

\* C16: when the last configuration call was a successful
\* set_socket(addr, port, protocol), the descriptor in log_socket is a
\* datagram socket for protocol udp and a stream socket for protocol tcp.
C16_SocketOfRequestedType ==
    (last.op = "set_socket_net" /\ last.res = "ok") =>
        sock_type[log_socket] = IF last.arg = "udp" THEN "dgram" ELSE "stream"

\* the sink of the dispatched record d was unavailable when it was written
SinkUnavailable(d) ==
    \/ d.dest = "file" /\ d.file = "closed"
    \/ d.dest = "socket" /\ d.sock = NoSocket

\* C17: a record dispatched while its sink is unavailable (tagged file with
\* no file open, or tagged socket with log_socket = -1) is dropped and is no
\* longer in the queue; the writer does not stop because of it (it leaves
\* its loop only on close_writer), and records are dispatched in the order
\* they were enqueued, none skipped.
C17_DropDoesNotStopWriter ==
    /\ \A i \in 1..Len(dispatched) :
         /\ dispatched[i].uid = i
         /\ SinkUnavailable(dispatched[i]) =>
              /\ dispatched[i].sink = "dropped"
              /\ \A j \in 1..Len(log_queue) :
                   log_queue[j].uid # dispatched[i].uid
    /\ wpc = "done" => close_writer

\* a record tagged socket was dropped with no socket set, and the writer
\* went on to write a later record to the open file
C17_Witness ==
    \E i, j \in 1..Len(dispatched) :
        /\ i < j
        /\ dispatched[i].dest = "socket"
        /\ SinkUnavailable(dispatched[i])
        /\ dispatched[j].sink \in Files

\* the record of the queue as add_to_queue built it
AsEnqueued(e) ==
    /\ e.uid \in 1..Len(enqueued)
    /\ e.message = enqueued[e.uid].message
    /\ e.dest = enqueued[e.uid].dest

\* C18: every record is written to the sink its destination tag names and
\* to no other (std_out to standard output, file to the file log_file
\* holds, socket to the descriptor in log_socket), with the payload and the
\* tag add_to_queue was given; records waiting in the queue and the record
\* being written are as enqueued; each record is written once and the
\* writer keeps no record after the write.
C18_DispatchToTaggedSink ==
    /\ \A i \in 1..Len(dispatched) :
         LET d == dispatched[i]
         IN /\ AsEnqueued(d)
            /\ \A j \in 1..Len(dispatched) :
                 dispatched[j].uid = d.uid => j = i
            /\ d.dest = "std_out" => d.sink = "stdout"
            /\ d.dest = "file" =>
                 d.sink = IF d.file = "closed" THEN "dropped" ELSE d.file
            /\ d.dest = "socket" =>
                 /\ d.sink \in {"fd", "dropped"}
                 /\ d.sink = "fd" => d.sock > 0
    /\ \A j \in 1..Len(log_queue) : AsEnqueued(log_queue[j])
    /\ wpc = "io" => (AsEnqueued(welem) /\ welem.uid = Len(dispatched))
    /\ wpc # "io" => welem = NoElem

\* C19: add_to_queue has no precondition on the queue: a call that has the
\* mutex free can push whatever the length of the queue, and when it has
\* pushed it has pushed exactly one record; the push appends the record
\* (payload, dest) of the call at the tail, the queue grows by exactly one,
\* the records already in it keep their places, and level, flags, file and
\* socket are unchanged.
C19_AddToQueueAppendsOne ==
    /\ [](\A t \in Threads :
            /\ (pc[t] = "aq_push" /\ log_mutex = "free") =>
                   ENABLED AddToQueuePush(t)
            /\ (pc[t] = "aq_notify" /\ loc[t].ret = "idle") =>
                   Len(loc[t].pushed) = 1)
    /\ [][enqueued' # enqueued =>
            \E t \in Threads :
               /\ pc[t] = "aq_push"
               /\ pc'[t] = "aq_notify"
               /\ Len(log_queue') = Len(log_queue) + 1
               /\ \A i \in 1..Len(log_queue) : log_queue'[i] = log_queue[i]
               /\ log_queue'[Len(log_queue')].message = loc[t].message
               /\ log_queue'[Len(log_queue')].dest = loc[t].dest
               /\ UNCHANGED <<log_level, flag_bits, log_file, log_socket,
                              sock_open, sock_conn, file_fds>>]_vars

\* a call has pushed its record behind one that was waiting in the queue,
\* with a file open
C19_Witness ==
    /\ \E t \in Threads : pc[t] = "aq_notify" /\ loc[t].ret = "idle"
    /\ Len(log_queue) >= 2
    /\ log_file \in Files

RECURSIVE OrAll(_)
OrAll(fs) == IF fs = <<>> THEN 0 ELSE BitOr(Head(fs), OrAll(Tail(fs)))

\* every bit set in a is set in b
BitsWithin(a, b) == BitOr(a, b) = b

\* C21: when set_flags(f1, ..., fn) returns and no other thread changed the
\* flags during the call, get_flags() is exactly f1 | ... | fn, whatever
\* the flags were before; when add_flags(f1, ..., fn) returns under the
\* same condition, get_flags() is the flags before the call with
\* f1 | ... | fn added; and no step of add_flags clears a bit.
C21_SetFlagsReplaces ==
    /\ [](\A t \in Threads :
            (pc[t] = "fl_ret" /\ ~loc[t].dirty) =>
                flag_bits = IF loc[t].op = "set_flags"
                            THEN OrAll(loc[t].given)
                            ELSE BitOr(loc[t].was, OrAll(loc[t].given)))
    /\ [][\A t \in Threads :
            (pc[t] = "af_add" /\ loc'[t].flags # loc[t].flags) =>
                BitsWithin(flag_bits, flag_bits')]_vars

\* set_flags(date, json) returns with the level flag, set before, cleared
C21_Witness ==
    \E t \in Threads :
        /\ pc[t] = "fl_ret"
        /\ loc[t].op = "set_flags"
        /\ ~loc[t].dirty
        /\ loc[t].was = flag_level
        /\ loc[t].given = <<flag_date, flag_json>>
        /\ flag_bits = 34

\* a step that is a whole set_level() call
IsSetLevel ==
    ncalls' # ncalls /\ pc' = pc /\ last'.op = "set_level"

\* C22: when set_level(l) was the last configuration call, the threshold is
\* l, and a log call that ran with no configuration call made during it got
\* l from get_level(); and a set_level call leaves the flags, the file, the
\* socket and the queue as they are.
C22_SetLevelGetLevel ==
    /\ [](last.op = "set_level" =>
            /\ log_level = last.lvl
            /\ \A t \in Threads :
                 (pc[t] = "log_ret" /\ ~loc[t].dirty) =>
                     loc[t].thr = last.lvl)
    /\ [][IsSetLevel =>
            UNCHANGED <<flag_bits, log_file, file_fds, log_socket, sock_open,
                        sock_conn, sock_type, log_queue>>]_vars

\* with a file open and a record in the queue, set_level(error) was called
\* and a later log call read error from get_level()
C22_Witness ==
    /\ last.op = "set_level"
    /\ last.lvl = error
    /\ last.before \in Files
    /\ log_queue # <<>>
    /\ \E t \in Threads :
         pc[t] = "log_ret" /\ ~loc[t].dirty /\ loc[t].thr = error

\* the levels and the flags by name (part_008:69-78, 87-96)
NamedLevel ==
    ("debug" :> debug) @@ ("info" :> info) @@ ("warn" :> warn)
    @@ ("error" :> error) @@ ("output" :> output)

NamedFlag ==
    ("none" :> flag_none) @@ ("level" :> flag_level) @@ ("date" :> flag_date)
    @@ ("time" :> flag_time) @@ ("pid" :> flag_pid) @@ ("tid" :> flag_tid)
    @@ ("json" :> flag_json)

\* the threshold, the flags and the file the lines give, the last line of
\* each key winning, from the values cur in force before
RECURSIVE LevelGiven(_, _)
LevelGiven(lines, cur) ==
    IF lines = <<>> THEN cur
    ELSE LevelGiven(Tail(lines),
                    IF Head(lines).key = "level"
                    THEN NamedLevel[Head(lines).value[1]] ELSE cur)

RECURSIVE FlagsGiven(_, _)
FlagsGiven(lines, cur) ==
    IF lines = <<>> THEN cur
    ELSE FlagsGiven(Tail(lines),
                    IF Head(lines).key = "flags"
                    THEN OrAll([i \in 1..Len(Head(lines).value) |->
                                   NamedFlag[Head(lines).value[i]]])
                    ELSE cur)

RECURSIVE FileGiven(_, _)
FileGiven(lines, cur) ==
    IF lines = <<>> THEN cur
    ELSE FileGiven(Tail(lines),
                   IF Head(lines).key = "file"
                   THEN Head(lines).value[1] ELSE cur)

\* C23: when settings_file returns success, the threshold, the flags and
\* the open file are those given by the last level, flags and file line of
\* the file (a flags line giving exactly the OR of the flags it lists), and
\* those in force before the call where the file has no such line; and a
\* call that returns without reading a file was given an empty or missing
\* path, returns an error and changes no setting.
C23_SettingsFile ==
    /\ [](\A t \in Threads :
            (pc[t] = "st_ret" /\ loc[t].res = "ok") =>
                /\ log_level = LevelGiven(loc[t].content, loc[t].waslvl)
                /\ flag_bits = FlagsGiven(loc[t].content, loc[t].was)
                /\ log_file = FileGiven(loc[t].content, loc[t].wasfile))
    /\ [][(ncalls' # ncalls /\ pc' = pc) =>
            /\ last'.op = "settings_file"
            /\ last'.arg \notin SettingsFiles
            /\ last'.res = "err"
            /\ UNCHANGED <<log_level, flag_bits, log_file, file_fds,
                           log_socket, log_queue>>]_vars

\* with the flags set to json by an earlier load, a file with the lines
\* level = error and flags = level,date,time,pid,tid was loaded: the
\* threshold is error and get_flags() is 31
C23_Witness ==
    \E t \in Threads :
        /\ pc[t] = "st_ret"
        /\ loc[t].res = "ok"
        /\ loc[t].was = flag_json
        /\ loc[t].content =
             << [key |-> "level", value |-> <<"error">>],
                [key |-> "flags",
                 value |-> <<"level", "date", "time", "pid", "tid">>] >>
        /\ log_level = error
        /\ flag_bits = 31

\* C24: when stop_writer() has returned, the writer handle holds no thread.
C24_StopClearsHandle ==
    (stopAt >= 0 /\ pc["main"] \notin {"stop_notify", "stop_join"}) =>
        writer_thread = "nullopt"

\* C25: with no configuration call made, a log call at level debug or info
\* has enqueued a record when it returns.
C25_DebugEnqueuedByDefault ==
    \A t \in Threads :
        (last.op = "none" /\ pc[t] = "log_ret" /\ loc[t].lvl \in {debug, info})
            => loc[t].pushed # <<>>

\* C26: the writer goes to sleep only from a test, made with log_mutex
\* held, that found the queue empty and close_writer false, and blocks only
\* from there; it goes from the wait to draining only with the queue
\* non-empty or close_writer true; it dispatches only a record that is at
\* the head of the queue, while draining, and exits only from the loop test
\* with close_writer true; once draining it pops the head as long as the
\* queue is not empty; and it gives up the mutex only with the queue empty.
C26_WriterStates ==
    /\ [][(wpc' = "sleep" /\ wpc # "sleep") =>
            /\ wpc \in {"lock", "woken"}
            /\ log_queue = <<>>
            /\ ~close_writer
            /\ log_mutex' = "writer"]_vars
    /\ [][(wpc' = "waiting" /\ wpc # "waiting") => wpc = "sleep"]_vars
    /\ [][(wpc \in {"lock", "woken"} /\ wpc' # wpc) =>
            /\ wpc' \in {"drain", "sleep"}
            /\ wpc' = "drain" => (log_queue # <<>> \/ close_writer)]_vars
    /\ [][dispatched' # dispatched =>
            /\ wpc = "drain"
            /\ log_queue # <<>>
            /\ log_queue' = Tail(log_queue)
            /\ dispatched'[Len(dispatched')].uid = Head(log_queue).uid]_vars
    /\ [][(wpc' = "done" /\ wpc # "done") =>
            (wpc = "loop" /\ close_writer)]_vars
    /\ [][(wpc = "drain" /\ wpc' # wpc) =>
            IF log_queue # <<>>
            THEN wpc' = "io" /\ dispatched' # dispatched
            ELSE wpc' = "loop"]_vars
    /\ [][(log_mutex = "writer" /\ log_mutex' # "writer") =>
            log_queue = <<>>]_vars

\* the writer has drained two records and, having found the queue empty
\* and close_writer false, is about to block again
C26_Witness ==
    /\ wpc = "sleep"
    /\ Len(dispatched) >= 2
    /\ log_queue = <<>>
    /\ ~close_writer

\* the sink of a leveled producer is available
SinkAvailable(d) ==
    CASE d = "std_out" -> TRUE
      [] d = "file" -> log_file # "closed"
      [] d = "socket" -> log_socket \in sock_open

\* C27: when log_to_stdout(lvl), log_to_file(lvl) or log_to_socket(lvl)
\* returns and no configuration call was made during the call, it has
\* enqueued exactly one record, tagged with its sink, if lvl is at or above
\* the threshold and its sink is available, and nothing otherwise.
C27_LeveledProducers ==
    \A t \in Threads :
        (pc[t] = "lt_ret" /\ ~loc[t].dirty) =>
            IF loc[t].lvl >= log_level /\ SinkAvailable(loc[t].dest)
            THEN /\ Len(loc[t].pushed) = 1
                 /\ loc[t].pushed[1].dest = loc[t].dest
            ELSE loc[t].pushed = <<>>

\* the last configuration call was a set_socket that returned an error
SetSocketFailed ==
    last.op \in {"set_socket", "set_socket_net"} /\ last.res = "err"

\* C28: when the last configuration call was a set_socket that returned an
\* error, no socket sink is active: log_socket does not pass the socket-open
\* test, and a log call that ran with no configuration call made during it
\* has enqueued no record tagged socket.
C28_FailedSetSocketInactive ==
    SetSocketFailed =>
        /\ ~SocketSet(log_socket)
        /\ \A t \in Threads :
             (pc[t] = "log_ret" /\ ~loc[t].dirty) =>
                 PushedTo(t, "socket") = <<>>

\* a stop_writer() call has returned
Stopped == joinAt >= 0

\* C29: close_writer starts false, is true from the first step of
\* stop_writer() on, and no step sets it back to false; once a stop_writer()
\* call has returned, a writer thread is only ever at the loop test or
\* exited, no record is dispatched, and no record leaves the queue.
C29_CloseWriterMonotonic ==
    /\ ~close_writer
    /\ [][close_writer => close_writer']_vars
    /\ [][(pc["main"] = "idle" /\ pc'["main"] = "stop_notify")
              => close_writer']_vars
    /\ [](Stopped => close_writer /\ wpc \in {"loop", "done"})
    /\ [][Stopped => /\ dispatched' = dispatched
                      /\ IsPrefix(log_queue, log_queue')]_vars

\* a writer started after stop_writer() returned has exited, and a record
\* enqueued after that return is in the queue
C29_Witness ==
    /\ Stopped
    /\ writer_thread = "running"
    /\ wpc = "done"
    /\ Len(enqueued) > joinAt
    /\ log_queue # <<>>

\* C30: while init_writer() has not been called the queue holds every record
\* pushed, in push order; the records are dispatched in push order; and under
\* fair scheduling a writer that passed its shutdown test before its first
\* wait dispatches every record pushed before init_writer() was called.
C30_EarlyRecordsDispatched ==
    /\ [](writer_thread = "nullopt" => log_queue = enqueued)
    /\ [](\A i \in 1..Len(dispatched) : dispatched[i].uid = i)
    /\ \A k \in 1..MaxFairCalls :
         (initAt >= k /\ wpc = "lock" /\ dispatched = <<>>)
             ~> (Len(dispatched) >= k)

\* every record was pushed before init_writer() was called, and the writer
\* has dispatched them all and waits
C30_Witness ==
    /\ initAt = MaxFairCalls
    /\ \A i \in 1..Len(dispatched) : dispatched[i].uid = i
    /\ Len(dispatched) = MaxFairCalls
    /\ wpc = "waiting"
    /\ ~close_writer

\* C31: a writer thread that has exited found close_writer true: whenever
\* the writer has exited close_writer is true, no step makes a writer exit
\* while close_writer is false, and an init_writer() that waits in emplace
\* for the thread it replaces stays there as long as close_writer is false.
C31_ExitOnlyOnShutdown ==
    /\ [](wpc = "done" => close_writer)
    /\ [][~close_writer => wpc' # "done"]_vars
    /\ [][(pc["main"] = "init_join" /\ ~close_writer)
              => (pc'["main"] = "init_join" /\ ~close_writer')]_vars

\* the second init_writer() waits for a writer that is parked on an empty
\* queue, with no shutdown requested
C31_Witness ==
    /\ pc["main"] = "init_join"
    /\ ~close_writer
    /\ wpc = "waiting"
    /\ log_queue = <<>>
    /\ ncalls = 0

\* thread t is inside a set_flags call
InSetFlags(t) ==
    loc[t].op = "set_flags" /\ pc[t] \in {"sf_clear", "af_add", "fl_ret"}

\* C32: while a set_flags(F) call runs and no other thread writes the flags,
\* flag_bits, which is what a get_flags() of another thread returns, is the
\* value before the call or exactly F; and when two set_flags calls that
\* ran concurrently have both finished, flag_bits is the argument of one of
\* them.
C32_SetFlagsAtomic ==
    /\ \A t \in Threads :
         (InSetFlags(t) /\ ~loc[t].dirty) =>
             flag_bits \in {loc[t].was, OrAll(loc[t].given)}
    /\ \A t, u \in Threads :
         (t # u /\ InSetFlags(t) /\ InSetFlags(u)
              /\ pc[t] = "fl_ret" /\ pc[u] = "fl_ret") =>
             flag_bits \in {OrAll(loc[t].given), OrAll(loc[u].given)}

\* settings_file is returning an error it met on a line of the file
SettingsFailed(t) == pc[t] = "st_ret" /\ loc[t].res = "err"

\* the number of lines settings_file applied before the line it failed on;
\* a flags line is taken off the lines left before its pieces are read
AppliedLines(t) ==
    Len(loc[t].content) - Len(loc[t].lines)
        - (IF loc[t].flags # <<>> THEN 1 ELSE 0)

EarlierLines(t) == SubSeq(loc[t].content, 1, AppliedLines(t))

FailedLine(t) == loc[t].content[AppliedLines(t) + 1]

\* the line is one settings_file rejects whatever the file system does
InvalidLine(l) ==
    \/ l.key \notin {"level", "flags", "file"}
    \/ l.key = "level" /\ l.value[1] \notin DOMAIN NamedLevel
    \/ l.key = "flags" /\ \E i \in 1..Len(l.value) :
                              l.value[i] \notin DOMAIN NamedFlag

\* the flags a flags line lists before the piece settings_file failed on
\* (all of the previous flags line otherwise)
FlagsAtFailure(t) ==
    IF FailedLine(t).key = "flags"
    THEN LET v == FailedLine(t).value
             n == Len(v) - Len(loc[t].flags)
         IN OrAll([i \in 1..n |-> NamedFlag[v[i]]])
    ELSE FlagsGiven(EarlierLines(t), loc[t].was)

HasKey(lines, k) == \E i \in 1..Len(lines) : lines[i].key = k

\* C33 as stated: when settings_file returns an error from a line, that
\* line is an invalid one or a file line, the threshold and the file are
\* those the earlier lines gave, and the flags are those the earlier lines
\* gave, or, when the failing line is a flags line, exactly the flags it
\* lists before the invalid one.
C33_EarlierLinesKept ==
    \A t \in Threads :
        SettingsFailed(t) =>
            /\ InvalidLine(FailedLine(t)) \/ FailedLine(t).key = "file"
            /\ log_level = LevelGiven(EarlierLines(t), loc[t].waslvl)
            /\ flag_bits = FlagsAtFailure(t)
            /\ HasKey(EarlierLines(t), "file") =>
                   log_file = FileGiven(EarlierLines(t), loc[t].wasfile)

\* C33, amended: as above, except that a failing file line leaves no file
\* open, the file an earlier line opened included.
C33_EarlierLinesKeptButFile ==
    \A t \in Threads :
        SettingsFailed(t) =>
            /\ InvalidLine(FailedLine(t)) \/ FailedLine(t).key = "file"
            /\ log_level = LevelGiven(EarlierLines(t), loc[t].waslvl)
            /\ flag_bits = FlagsAtFailure(t)
            /\ log_file = IF FailedLine(t).key = "file" THEN "closed"
                          ELSE FileGiven(EarlierLines(t), loc[t].wasfile)

\* with the flags json and the threshold warn, the lines level = error and
\* flags = level,bogus were read: the call fails with the threshold error
\* and the level flag alone
C33_Witness ==
    \E t \in Threads :
        /\ SettingsFailed(t)
        /\ loc[t].was = flag_json
        /\ loc[t].waslvl = warn
        /\ loc[t].content =
             << [key |-> "level", value |-> <<"error">>],
                [key |-> "flags", value |-> <<"level", "bogus">>] >>
        /\ log_level = error
        /\ flag_bits = flag_level

\* the writer takes a record tagged file from the queue
DispatchesFile ==
    /\ Len(dispatched') = Len(dispatched) + 1
    /\ dispatched'[Len(dispatched')].dest = "file"

\* C34: a record tagged file that the writer dispatches goes to the file of
\* the latest set_file() call when that call succeeded and no close_file()
\* followed it, whatever file was open when the record was pushed, and is
\* dropped when the latest of these calls was a close_file() or a set_file()
\* that failed, or when there was none.
C34_FileAtDispatch ==
    [][DispatchesFile =>
         dispatched'[Len(dispatched')].sink =
             IF last.op = "set_file" /\ last.res = "ok" THEN last.arg
             ELSE "dropped"]_vars

\* the record pushed while F was open was written to G, before the
\* add_to_queue call that pushed it has returned
C34_Witness ==
    /\ pc["p1"] = "aq_notify"
    /\ loc["p1"].atpush = "F"
    /\ loc["p1"].dest = "file"
    /\ Len(dispatched) = Len(enqueued)
    /\ dispatched[Len(dispatched)].sink = "G"

\* thread t is inside flush()
InFlush(t) == pc[t] = "flush"

\* C35: flush() holds log_mutex from its first step to its return, and
\* from the step that enters it to the step that returns from it the queue,
\* the threshold, the flags, the file and socket handles and the records
\* dispatched are unchanged: it neither changes the logger's state nor has
\* any queued record dispatched.
C35_FlushChangesNothing ==
    /\ [](\A t \in Threads : InFlush(t) => log_mutex = t)
    /\ [][(\E t \in Threads : InFlush(t) \/ InFlush(t)') =>
            UNCHANGED <<log_queue, log_level, flag_bits, handles, file_fds,
                        dispatched, close_writer, writer_thread>>]_vars

\* flush() is about to return with a file open and the writer started, and
\* a record pushed before it was called is still in the queue
C35_Witness ==
    /\ InFlush("main")
    /\ loc["main"].wasfile = "F"
    /\ writer_thread = "running"
    /\ wpc \in {"lock", "woken"}
    /\ log_queue # <<>>

\* C36: a log call made while the threshold is disabled, with no
\* configuration call made during it, has enqueued nothing when it returns,
\* whatever its level argument.
C36_DisabledEnqueuesNothing ==
    \A t \in Threads :
        (pc[t] = "log_ret" /\ ~loc[t].dirty /\ log_level = disabled) =>
            loc[t].pushed = <<>>

\* the next step of the call thread t is in
StepOf(t) ==
    \/ LogStep(t)
    \/ ThreadStep(t)
    \/ SettingsStep(t)
    \/ FlushReturn(t)
    \/ SetSocketCreate(t)
    \/ SetSocketNetCreate(t)

\* C37: a thread that is not inside a call does not hold log_mutex; a
\* thread inside a call can take its next step whenever the mutex is free
\* or its own, so it never waits for a lock it holds itself; a thread that
\* holds the mutex is inside set_socket or flush, past their single
\* lock_guard; and the writer holds the mutex only between the return of
\* its wait and the end of a drain, never while parked.
C37_NoSelfDeadlock ==
    \A t \in Threads :
        /\ pc[t] = "idle" => log_mutex # t
        /\ (pc[t] # "idle" /\ log_mutex \in {"free", t}) => ENABLED StepOf(t)
        /\ log_mutex = t => pc[t] \in {"ss_socket", "sn_socket", "flush"}
        /\ log_mutex = "writer" <=> wpc \in {"sleep", "drain", "io"}

\* the main thread is inside set_socket with the mutex held, the writer is
\* about to lock it, and p1 is inside add_to_queue, about to lock it too
C37_Witness ==
    /\ log_mutex = "main"
    /\ pc["main"] = "sn_socket"
    /\ wpc \in {"lock", "woken"}
    /\ pc["p1"] = "aq_push"

\* C38: when no set_socket call is in progress, every socket descriptor
\* that is open is the one stored in log_socket.
C38_NoDescriptorLeak ==
    (\A t \in Threads : pc[t] \notin {"ss_socket", "sn_socket"}) =>
        sock_open \subseteq {log_socket}

====
